---- MODULE Spec2Model ----
(***************************************************************************)
(* LearnStackHub: the AdSense display component (components/AdSense.jsx),  *)
(* the MavenIcon component, the Maven and Spring tutorial data modules,    *)
(* the Spring topics index and the sitemap generator described in          *)
(* SITEMAP_GUIDE.md.                                                       *)
(*                                                                         *)
(* The AdSense component is modelled with React's scheduling made          *)
(* explicit: a state setter records the new value in the hook (hook), a    *)
(* later render reads it into the render's constants (adLoaded, adFailed)  *)
(* and commits the DOM, and the passive effects of that commit are flushed *)
(* in a later step (effects).  Timers and the MutationObserver callback    *)
(* run between these steps.  Timers are untimed: a pending timer may fire  *)
(* at any moment, which covers a busy main thread.                         *)
(***************************************************************************)
EXTENDS Integers, Sequences, FiniteSets, TLC

VARIABLES
    phase,          \* "initial" | "mounted" | "unmounted" | "crashed"
    configured,     \* the value of isAdSenseConfigured()
    adLoaded,       \* const adLoaded of the current render
    adFailed,       \* const adFailed of the current render
    hook,           \* latest values held by the two useState hooks
    output,         \* what the last render returned and React committed
    adRefCurrent,   \* adRef.current is the <ins> element (TRUE) or null
    status,         \* the <ins>'s data-adsbygoogle-status attribute
    iframe,         \* the iframe inside the <ins>: none, zero or positive height
    adsbygoogle,    \* window.adsbygoogle is defined
    pushes,         \* calls of window.adsbygoogle.push({})
    errorsLogged,   \* calls of console.error('AdSense error:', err)
    effects,        \* passive effects waiting to be flushed
    observers,      \* connected MutationObservers
    timeouts,       \* the 5-second timers created so far, with their closures
    cleanupFn,      \* the monitoring effect returned a cleanup function
    contentTimers,  \* pending 500 ms content-check timers
    tutorials,      \* the tutorial data objects, by module name
    springIndex,    \* the names exported by the Spring topics index
    sitemap,        \* the URLs of the generated sitemap.xml
    icon            \* what the last MavenIcon render returned

vars == <<phase, configured, adLoaded, adFailed, hook, output, adRefCurrent,
          status, iframe, adsbygoogle, pushes, errorsLogged, effects,
          observers, timeouts, cleanupFn, contentTimers, tutorials,
          springIndex, sitemap, icon>>

adVars == <<phase, configured, adLoaded, adFailed, hook, output, adRefCurrent,
            status, iframe, adsbygoogle, pushes, errorsLogged, effects,
            observers, timeouts, cleanupFn, contentTimers>>

(***************************************************************************)
(* JavaScript values of the data modules.  A one-line string literal keeps *)
(* its text; a template literal (content, code) is kept as a string with   *)
(* the number of source lines it spans; an array keeps its length.         *)
(***************************************************************************)
Str(s) == [type |-> "string", value |-> s]

\* The string literal of an id, with the characters it is made of.
Id(s, cs) == [type |-> "string", value |-> s, chars |-> cs]

Text(n) == [type |-> "string", lines |-> n]

Arr(n) == [type |-> "array", length |-> n]

(***************************************************************************)
(* The tutorial data modules: one object literal per module.               *)
(***************************************************************************)
mavenCommonErrors ==
    [id |-> Id("maven-common-errors",
            <<"m", "a", "v", "e", "n", "-", "c", "o", "m", "m", "o",
              "n", "-", "e", "r", "r", "o", "r", "s">>),
     title |-> Str("Common Errors & Fixes"),
     description |-> Str("Learn how to fix common Maven errors"),
     courseTitle |-> Str("Maven"),
     sectionTitle |-> Str("Maven Basics"),
     content |-> Text(461)]

mavenCreateProject ==
    [id |-> Id("maven-create-project",
            <<"m", "a", "v", "e", "n", "-", "c", "r", "e", "a", "t",
              "e", "-", "p", "r", "o", "j", "e", "c", "t">>),
     title |-> Str("Create Maven Project"),
     description |-> Str("Learn different ways to create a new Maven project"),
     courseTitle |-> Str("Maven"),
     sectionTitle |-> Str("Maven Basics"),
     content |-> Text(303)]

mavenDependencyManagement ==
    [id |-> Id("maven-dependency-management",
            <<"m", "a", "v", "e", "n", "-", "d", "e", "p", "e", "n",
              "d", "e", "n", "c", "y", "-", "m", "a", "n", "a", "g",
              "e", "m", "e", "n", "t">>),
     title |-> Str("Dependency Management"),
     description |-> Str("Learn how to manage project dependencies effectively"),
     courseTitle |-> Str("Maven"),
     sectionTitle |-> Str("Maven Basics"),
     content |-> Text(435)]

mavenInstallation ==
    [id |-> Id("maven-installation",
            <<"m", "a", "v", "e", "n", "-", "i", "n", "s", "t", "a",
              "l", "l", "a", "t", "i", "o", "n">>),
     title |-> Str("Install Maven"),
     description |-> Str("Step-by-step guide to install Maven on Windows, Mac, and Linux"),
     courseTitle |-> Str("Maven"),
     sectionTitle |-> Str("Maven Basics"),
     content |-> Text(218)]

mavenIntroduction ==
    [id |-> Id("maven-introduction",
            <<"m", "a", "v", "e", "n", "-", "i", "n", "t", "r", "o",
              "d", "u", "c", "t", "i", "o", "n">>),
     title |-> Str("What is Maven?"),
     description |-> Str("Learn what Maven is and why it's essential for Java development"),
     courseTitle |-> Str("Maven"),
     sectionTitle |-> Str("Maven Basics"),
     content |-> Text(159)]

mavenMultiModule ==
    [id |-> Id("maven-multi-module",
            <<"m", "a", "v", "e", "n", "-", "m", "u", "l", "t", "i",
              "-", "m", "o", "d", "u", "l", "e">>),
     title |-> Str("Multi-Module Project"),
     description |-> Str("Learn how to create and manage multi-module Maven projects"),
     courseTitle |-> Str("Maven"),
     sectionTitle |-> Str("Maven Basics"),
     content |-> Text(497)]

mavenProjectStructure ==
    [id |-> Id("maven-project-structure",
            <<"m", "a", "v", "e", "n", "-", "p", "r", "o", "j", "e",
              "c", "t", "-", "s", "t", "r", "u", "c", "t", "u", "r",
              "e">>),
     title |-> Str("Maven Project Structure"),
     description |-> Str("Understand the standard Maven directory layout and why it matters"),
     courseTitle |-> Str("Maven"),
     sectionTitle |-> Str("Maven Basics"),
     content |-> Text(279)]

mavenRepositories ==
    [id |-> Id("maven-repositories",
            <<"m", "a", "v", "e", "n", "-", "r", "e", "p", "o", "s",
              "i", "t", "o", "r", "i", "e", "s">>),
     title |-> Str("Maven Repositories"),
     description |-> Str("Understand how Maven stores and retrieves dependencies"),
     courseTitle |-> Str("Maven"),
     sectionTitle |-> Str("Maven Basics"),
     content |-> Text(356)]

mavenSpringBoot ==
    [id |-> Id("maven-spring-boot",
            <<"m", "a", "v", "e", "n", "-", "s", "p", "r", "i", "n",
              "g", "-", "b", "o", "o", "t">>),
     title |-> Str("Maven with Spring Boot"),
     description |-> Str("Learn how to use Maven with Spring Boot applications"),
     courseTitle |-> Str("Maven"),
     sectionTitle |-> Str("Maven Basics"),
     content |-> Text(460)]

mavenVsGradle ==
    [id |-> Id("maven-vs-gradle",
            <<"m", "a", "v", "e", "n", "-", "v", "s", "-", "g", "r",
              "a", "d", "l", "e">>),
     title |-> Str("Maven vs Gradle"),
     description |-> Str("Compare Maven and Gradle build tools"),
     courseTitle |-> Str("Maven"),
     sectionTitle |-> Str("Maven Basics"),
     content |-> Text(322)]

\* mavenWhy with the id copied from the module it was started from.
mavenWhyCopiedId ==
    [id |-> Id("maven-introduction",
            <<"m", "a", "v", "e", "n", "-", "i", "n", "t", "r", "o",
              "d", "u", "c", "t", "i", "o", "n">>),
     title |-> Str("Why Maven?"),
     description |-> Str("Understand why Maven is essential and what problems it solves"),
     courseTitle |-> Str("Maven"),
     sectionTitle |-> Str("Maven Basics"),
     content |-> Text(270)]

mavenWhy ==
    [id |-> Id("maven-why",
            <<"m", "a", "v", "e", "n", "-", "w", "h", "y">>),
     title |-> Str("Why Maven?"),
     description |-> Str("Understand why Maven is essential and what problems it solves"),
     courseTitle |-> Str("Maven"),
     sectionTitle |-> Str("Maven Basics"),
     content |-> Text(270)]

springAOPWithSpringBoot ==
    [id |-> Id("spring-aop-spring-boot",
            <<"s", "p", "r", "i", "n", "g", "-", "a", "o", "p", "-",
              "s", "p", "r", "i", "n", "g", "-", "b", "o", "o", "t">>),
     title |-> Str("Spring AOP with Spring Boot"),
     description |-> Str("Using AOP in Spring Boot applications with auto-configuration"),
     content |-> Text(396),
     code |-> Text(55),
     practiceQuestions |-> Arr(1)]

springApplicationContext ==
    [id |-> Id("spring-applicationcontext",
            <<"s", "p", "r", "i", "n", "g", "-", "a", "p", "p", "l",
              "i", "c", "a", "t", "i", "o", "n", "c", "o", "n", "t",
              "e", "x", "t">>),
     title |-> Str("Spring ApplicationContext - The Container"),
     description |-> Str("Understanding the container that holds all Spring beans"),
     content |-> Text(378),
     code |-> Text(86),
     practiceQuestions |-> Arr(1)]

\* springBean without its code field.
springBeanNoCode ==
    [id |-> Id("spring-bean",
            <<"s", "p", "r", "i", "n", "g", "-", "b", "e", "a", "n">>),
     title |-> Str("Spring Bean - Understanding Spring-Managed Objects"),
     description |-> Str("What are beans and how Spring manages them"),
     content |-> Text(407),
     practiceQuestions |-> Arr(1)]

springBean ==
    [id |-> Id("spring-bean",
            <<"s", "p", "r", "i", "n", "g", "-", "b", "e", "a", "n">>),
     title |-> Str("Spring Bean - Understanding Spring-Managed Objects"),
     description |-> Str("What are beans and how Spring manages them"),
     content |-> Text(407),
     code |-> Text(76),
     practiceQuestions |-> Arr(1)]

springConfigurationAnnotation ==
    [id |-> Id("spring-configuration-annotation",
            <<"s", "p", "r", "i", "n", "g", "-", "c", "o", "n", "f",
              "i", "g", "u", "r", "a", "t", "i", "o", "n", "-", "a",
              "n", "n", "o", "t", "a", "t", "i", "o", "n">>),
     title |-> Str("Spring Annotation Configuration"),
     description |-> Str("The modern way to configure Spring using annotations"),
     content |-> Text(486),
     code |-> Text(86),
     practiceQuestions |-> Arr(1)]

springConfigurationXML ==
    [id |-> Id("spring-configuration-xml",
            <<"s", "p", "r", "i", "n", "g", "-", "c", "o", "n", "f",
              "i", "g", "u", "r", "a", "t", "i", "o", "n", "-", "x",
              "m", "l">>),
     title |-> Str("Spring XML Configuration"),
     description |-> Str("How to configure Spring using XML files"),
     content |-> Text(381),
     code |-> Text(85),
     practiceQuestions |-> Arr(1)]

springDataCustomQueries ==
    [id |-> Id("spring-data-custom-queries",
            <<"s", "p", "r", "i", "n", "g", "-", "d", "a", "t", "a",
              "-", "c", "u", "s", "t", "o", "m", "-", "q", "u", "e",
              "r", "i", "e", "s">>),
     title |-> Str("Spring Data Custom Queries"),
     description |-> Str("Using @Query annotation for custom database queries"),
     content |-> Text(247),
     code |-> Text(50),
     practiceQuestions |-> Arr(1)]

springDataIntroduction ==
    [id |-> Id("spring-data-introduction",
            <<"s", "p", "r", "i", "n", "g", "-", "d", "a", "t", "a",
              "-", "i", "n", "t", "r", "o", "d", "u", "c", "t", "i",
              "o", "n">>),
     title |-> Str("Spring Data - Introduction"),
     description |-> Str("Understanding Spring Data and how it simplifies database operations"),
     content |-> Text(445),
     code |-> Text(57),
     practiceQuestions |-> Arr(1)]

springDataRepositoryArchitecture ==
    [id |-> Id("spring-data-repository-architecture",
            <<"s", "p", "r", "i", "n", "g", "-", "d", "a", "t", "a",
              "-", "r", "e", "p", "o", "s", "i", "t", "o", "r", "y",
              "-", "a", "r", "c", "h", "i", "t", "e", "c", "t", "u",
              "r", "e">>),
     title |-> Str("Spring Data Repository Architecture"),
     description |-> Str("Understanding the repository pattern and Spring Data repository hierarchy"),
     content |-> Text(458),
     code |-> Text(59),
     practiceQuestions |-> Arr(1)]

\* springIOC with an id spelled like the name of its module.
springIOCUpperId ==
    [id |-> Id("spring-IOC",
            <<"s", "p", "r", "i", "n", "g", "-", "I", "O", "C">>),
     title |-> Str("Spring IOC - Inversion of Control"),
     description |-> Str("Understanding how Spring takes control of object creation"),
     content |-> Text(353),
     code |-> Text(84),
     practiceQuestions |-> Arr(1)]

springIOC ==
    [id |-> Id("spring-ioc",
            <<"s", "p", "r", "i", "n", "g", "-", "i", "o", "c">>),
     title |-> Str("Spring IOC - Inversion of Control"),
     description |-> Str("Understanding how Spring takes control of object creation"),
     content |-> Text(353),
     code |-> Text(84),
     practiceQuestions |-> Arr(1)]

springIntroduction ==
    [id |-> Id("spring-introduction",
            <<"s", "p", "r", "i", "n", "g", "-", "i", "n", "t", "r",
              "o", "d", "u", "c", "t", "i", "o", "n">>),
     title |-> Str("Why Spring? Problems in Traditional Java"),
     description |-> Str("Understanding why Spring exists and the real problems it solves"),
     content |-> Text(414),
     code |-> Text(71),
     practiceQuestions |-> Arr(1)]

springJDBCTemplate ==
    [id |-> Id("spring-jdbc-template",
            <<"s", "p", "r", "i", "n", "g", "-", "j", "d", "b", "c",
              "-", "t", "e", "m", "p", "l", "a", "t", "e">>),
     title |-> Str("Spring JDBC Template"),
     description |-> Str("Using JDBC Template for database operations without JPA"),
     content |-> Text(500),
     code |-> Text(63),
     practiceQuestions |-> Arr(1)]

springMVCViewResolver ==
    [id |-> Id("spring-mvc-viewresolver",
            <<"s", "p", "r", "i", "n", "g", "-", "m", "v", "c", "-",
              "v", "i", "e", "w", "r", "e", "s", "o", "l", "v", "e",
              "r">>),
     title |-> Str("Spring MVC ViewResolver"),
     description |-> Str("How Spring resolves view names to actual views"),
     content |-> Text(330),
     code |-> Text(73),
     practiceQuestions |-> Arr(1)]

springProjectLoginStudentCRUD ==
    [id |-> Id("spring-project-login-student-crud",
            <<"s", "p", "r", "i", "n", "g", "-", "p", "r", "o", "j",
              "e", "c", "t", "-", "l", "o", "g", "i", "n", "-", "s",
              "t", "u", "d", "e", "n", "t", "-", "c", "r", "u", "d">>),
     title |-> Str("Spring Project - Login + Student CRUD"),
     description |-> Str("Building a complete Spring MVC application with login and student management"),
     content |-> Text(649),
     code |-> Text(77),
     practiceQuestions |-> Arr(1)]

mavenBestPractices ==
    [id |-> Id("maven-best-practices",
            <<"m", "a", "v", "e", "n", "-", "b", "e", "s", "t", "-",
              "p", "r", "a", "c", "t", "i", "c", "e", "s">>),
     title |-> Str("Best Practices"),
     description |-> Str("Maven best practices for professional development"),
     courseTitle |-> Str("Maven"),
     sectionTitle |-> Str("Maven Basics"),
     content |-> Text(462)]

mavenCommands ==
    [id |-> Id("maven-commands",
            <<"m", "a", "v", "e", "n", "-", "c", "o", "m", "m", "a",
              "n", "d", "s">>),
     title |-> Str("Useful Maven Commands"),
     description |-> Str("Essential Maven commands every developer should know"),
     courseTitle |-> Str("Maven"),
     sectionTitle |-> Str("Maven Basics"),
     content |-> Text(476)]

mavenPlugins ==
    [id |-> Id("maven-plugins",
            <<"m", "a", "v", "e", "n", "-", "p", "l", "u", "g", "i",
              "n", "s">>),
     title |-> Str("Maven Plugins"),
     description |-> Str("Learn how to use and configure Maven plugins"),
     courseTitle |-> Str("Maven"),
     sectionTitle |-> Str("Maven Basics"),
     content |-> Text(406)]

mavenPomXml ==
    [id |-> Id("maven-pom-xml",
            <<"m", "a", "v", "e", "n", "-", "p", "o", "m", "-", "x",
              "m", "l">>),
     title |-> Str("What is pom.xml?"),
     description |-> Str("Learn about the Project Object Model file - the heart of every Maven project"),
     courseTitle |-> Str("Maven"),
     sectionTitle |-> Str("Maven Basics"),
     content |-> Text(380)]

springAOPAdvancedPointcuts ==
    [id |-> Id("spring-aop-advanced-pointcuts",
            <<"s", "p", "r", "i", "n", "g", "-", "a", "o", "p", "-",
              "a", "d", "v", "a", "n", "c", "e", "d", "-", "p", "o",
              "i", "n", "t", "c", "u", "t", "s">>),
     title |-> Str("Spring AOP - Advanced Pointcut Expressions"),
     description |-> Str("Mastering complex pointcut expressions for precise aspect targeting"),
     content |-> Text(486),
     code |-> Text(58),
     practiceQuestions |-> Arr(1)]

springAOPAspectOrdering ==
    [id |-> Id("spring-aop-aspect-ordering",
            <<"s", "p", "r", "i", "n", "g", "-", "a", "o", "p", "-",
              "a", "s", "p", "e", "c", "t", "-", "o", "r", "d", "e",
              "r", "i", "n", "g">>),
     title |-> Str("Spring AOP - Aspect Ordering"),
     description |-> Str("Controlling the order in which multiple aspects are applied"),
     content |-> Text(427),
     code |-> Text(53),
     practiceQuestions |-> Arr(1)]

springAOPCustomAnnotations ==
    [id |-> Id("spring-aop-custom-annotations",
            <<"s", "p", "r", "i", "n", "g", "-", "a", "o", "p", "-",
              "c", "u", "s", "t", "o", "m", "-", "a", "n", "n", "o",
              "t", "a", "t", "i", "o", "n", "s">>),
     title |-> Str("Spring AOP - Custom Annotations"),
     description |-> Str("Creating custom annotations to mark methods for aspect processing"),
     content |-> Text(517),
     code |-> Text(55),
     practiceQuestions |-> Arr(1)]

springAOPIntroduction ==
    [id |-> Id("spring-aop-introduction",
            <<"s", "p", "r", "i", "n", "g", "-", "a", "o", "p", "-",
              "i", "n", "t", "r", "o", "d", "u", "c", "t", "i", "o",
              "n">>),
     title |-> Str("Spring AOP - Introduction"),
     description |-> Str("Understanding Aspect-Oriented Programming and cross-cutting concerns"),
     content |-> Text(522),
     code |-> Text(71),
     practiceQuestions |-> Arr(1)]

springDI ==
    [id |-> Id("spring-di",
            <<"s", "p", "r", "i", "n", "g", "-", "d", "i">>),
     title |-> Str("Spring DI - Dependency Injection"),
     description |-> Str("How Spring automatically wires dependencies together"),
     content |-> Text(449),
     code |-> Text(81),
     practiceQuestions |-> Arr(1)]

springMVCController ==
    [id |-> Id("spring-mvc-controller",
            <<"s", "p", "r", "i", "n", "g", "-", "m", "v", "c", "-",
              "c", "o", "n", "t", "r", "o", "l", "l", "e", "r">>),
     title |-> Str("Spring MVC Controller"),
     description |-> Str("How to create controllers to handle web requests"),
     content |-> Text(451),
     code |-> Text(95),
     practiceQuestions |-> Arr(1)]

springMVCDispatcherServlet ==
    [id |-> Id("spring-mvc-dispatcherservlet",
            <<"s", "p", "r", "i", "n", "g", "-", "m", "v", "c", "-",
              "d", "i", "s", "p", "a", "t", "c", "h", "e", "r", "s",
              "e", "r", "v", "l", "e", "t">>),
     title |-> Str("Spring MVC DispatcherServlet"),
     description |-> Str("Understanding the front controller of Spring MVC"),
     content |-> Text(355),
     code |-> Text(82),
     practiceQuestions |-> Arr(1)]

springMVCModelAndView ==
    [id |-> Id("spring-mvc-modelandview",
            <<"s", "p", "r", "i", "n", "g", "-", "m", "v", "c", "-",
              "m", "o", "d", "e", "l", "a", "n", "d", "v", "i", "e",
              "w">>),
     title |-> Str("Spring MVC ModelAndView"),
     description |-> Str("Using ModelAndView to pass data and specify views"),
     content |-> Text(337),
     code |-> Text(85),
     practiceQuestions |-> Arr(1)]

(***************************************************************************)
(* The default exports of the Maven data modules, by exported name.        *)
(***************************************************************************)
MavenTopics ==
    [mavenCommonErrors |-> mavenCommonErrors,
     mavenCreateProject |-> mavenCreateProject,
     mavenDependencyManagement |-> mavenDependencyManagement,
     mavenInstallation |-> mavenInstallation,
     mavenIntroduction |-> mavenIntroduction,
     mavenMultiModule |-> mavenMultiModule,
     mavenProjectStructure |-> mavenProjectStructure,
     mavenRepositories |-> mavenRepositories,
     mavenSpringBoot |-> mavenSpringBoot,
     mavenVsGradle |-> mavenVsGradle,
     mavenWhy |-> mavenWhy,
     mavenBestPractices |-> mavenBestPractices,
     mavenCommands |-> mavenCommands,
     mavenPlugins |-> mavenPlugins,
     mavenPomXml |-> mavenPomXml]

(***************************************************************************)
(* The default exports of the Spring data modules, by exported name.       *)
(***************************************************************************)
SpringTopics ==
    [springAOPWithSpringBoot |-> springAOPWithSpringBoot,
     springApplicationContext |-> springApplicationContext,
     springBean |-> springBean,
     springConfigurationAnnotation |-> springConfigurationAnnotation,
     springConfigurationXML |-> springConfigurationXML,
     springDataCustomQueries |-> springDataCustomQueries,
     springDataIntroduction |-> springDataIntroduction,
     springDataRepositoryArchitecture |-> springDataRepositoryArchitecture,
     springIOC |-> springIOC,
     springIntroduction |-> springIntroduction,
     springJDBCTemplate |-> springJDBCTemplate,
     springMVCViewResolver |-> springMVCViewResolver,
     springProjectLoginStudentCRUD |-> springProjectLoginStudentCRUD,
     springAOPAdvancedPointcuts |-> springAOPAdvancedPointcuts,
     springAOPAspectOrdering |-> springAOPAspectOrdering,
     springAOPCustomAnnotations |-> springAOPCustomAnnotations,
     springAOPIntroduction |-> springAOPIntroduction,
     springDI |-> springDI,
     springMVCController |-> springMVCController,
     springMVCDispatcherServlet |-> springMVCDispatcherServlet,
     springMVCModelAndView |-> springMVCModelAndView]

TutorialData == MavenTopics @@ SpringTopics

(***************************************************************************)
(* The Spring topics index: its import declarations (local name, module)   *)
(* and the names of its export list, in source order.                      *)
(***************************************************************************)
SpringImports ==
    << <<"springIntroduction", "SpringIntroduction">>,
       <<"springIOC", "SpringIOC">>,
       <<"springDI", "SpringDI">>,
       <<"springBean", "SpringBean">>,
       <<"springApplicationContext", "SpringApplicationContext">>,
       <<"springConfigurationXML", "SpringConfigurationXML">>,
       <<"springConfigurationAnnotation", "SpringConfigurationAnnotation">>,
       <<"springMVCDispatcherServlet", "SpringMVCDispatcherServlet">>,
       <<"springMVCController", "SpringMVCController">>,
       <<"springMVCViewResolver", "SpringMVCViewResolver">>,
       <<"springMVCModelAndView", "SpringMVCModelAndView">>,
       <<"springProjectLoginStudentCRUD", "SpringProjectLoginStudentCRUD">>,
       <<"springDataIntroduction", "SpringDataIntroduction">>,
       <<"springDataRepositoryArchitecture", "SpringDataRepositoryArchitecture">>,
       <<"springJDBCTemplate", "SpringJDBCTemplate">>,
       <<"springDataCustomQueries", "SpringDataCustomQueries">>,
       <<"springAOPIntroduction", "SpringAOPIntroduction">>,
       <<"springAOPAdvancedPointcuts", "SpringAOPAdvancedPointcuts">>,
       <<"springAOPCustomAnnotations", "SpringAOPCustomAnnotations">>,
       <<"springAOPAspectOrdering", "SpringAOPAspectOrdering">>,
       <<"springAOPWithSpringBoot", "SpringAOPWithSpringBoot">> >>

\* An export list that leaves out the last imported name.
SpringExportListDropsLast ==
    [i \in 1..(Len(SpringImports) - 1) |-> SpringImports[i][1]]

SpringExportList ==
    << "springIntroduction",
       "springIOC",
       "springDI",
       "springBean",
       "springApplicationContext",
       "springConfigurationXML",
       "springConfigurationAnnotation",
       "springMVCDispatcherServlet",
       "springMVCController",
       "springMVCViewResolver",
       "springMVCModelAndView",
       "springProjectLoginStudentCRUD",
       "springDataIntroduction",
       "springDataRepositoryArchitecture",
       "springJDBCTemplate",
       "springDataCustomQueries",
       "springAOPIntroduction",
       "springAOPAdvancedPointcuts",
       "springAOPCustomAnnotations",
       "springAOPAspectOrdering",
       "springAOPWithSpringBoot" >>

\* The object a module's default export is bound to ("export default x").
DefaultExport ==
    [SpringIntroduction |-> "springIntroduction",
     SpringIOC |-> "springIOC",
     SpringDI |-> "springDI",
     SpringBean |-> "springBean",
     SpringApplicationContext |-> "springApplicationContext",
     SpringConfigurationXML |-> "springConfigurationXML",
     SpringConfigurationAnnotation |-> "springConfigurationAnnotation",
     SpringMVCDispatcherServlet |-> "springMVCDispatcherServlet",
     SpringMVCController |-> "springMVCController",
     SpringMVCViewResolver |-> "springMVCViewResolver",
     SpringMVCModelAndView |-> "springMVCModelAndView",
     SpringProjectLoginStudentCRUD |-> "springProjectLoginStudentCRUD",
     SpringDataIntroduction |-> "springDataIntroduction",
     SpringDataRepositoryArchitecture |-> "springDataRepositoryArchitecture",
     SpringJDBCTemplate |-> "springJDBCTemplate",
     SpringDataCustomQueries |-> "springDataCustomQueries",
     SpringAOPIntroduction |-> "springAOPIntroduction",
     SpringAOPAdvancedPointcuts |-> "springAOPAdvancedPointcuts",
     SpringAOPCustomAnnotations |-> "springAOPCustomAnnotations",
     SpringAOPAspectOrdering |-> "springAOPAspectOrdering",
     SpringAOPWithSpringBoot |-> "springAOPWithSpringBoot"]

\* The spelling of every local name and module specifier of the import
\* declarations (the specifier without its "./" prefix).
Spelling ==
    [springIntroduction |->
       <<"s", "p", "r", "i", "n", "g", "I", "n", "t", "r", "o", "d", "u", "c", "t", "i", "o", "n">>,
     SpringIntroduction |->
       <<"S", "p", "r", "i", "n", "g", "I", "n", "t", "r", "o", "d", "u", "c", "t", "i", "o", "n">>,
     springIOC |->
       <<"s", "p", "r", "i", "n", "g", "I", "O", "C">>,
     SpringIOC |->
       <<"S", "p", "r", "i", "n", "g", "I", "O", "C">>,
     springDI |->
       <<"s", "p", "r", "i", "n", "g", "D", "I">>,
     SpringDI |->
       <<"S", "p", "r", "i", "n", "g", "D", "I">>,
     springBean |->
       <<"s", "p", "r", "i", "n", "g", "B", "e", "a", "n">>,
     SpringBean |->
       <<"S", "p", "r", "i", "n", "g", "B", "e", "a", "n">>,
     springApplicationContext |->
       <<"s", "p", "r", "i", "n", "g", "A", "p", "p", "l", "i", "c", "a", "t", "i", "o", "n", "C", "o", "n", "t", "e", "x", "t">>,
     SpringApplicationContext |->
       <<"S", "p", "r", "i", "n", "g", "A", "p", "p", "l", "i", "c", "a", "t", "i", "o", "n", "C", "o", "n", "t", "e", "x", "t">>,
     springConfigurationXML |->
       <<"s", "p", "r", "i", "n", "g", "C", "o", "n", "f", "i", "g", "u", "r", "a", "t", "i", "o", "n", "X", "M", "L">>,
     SpringConfigurationXML |->
       <<"S", "p", "r", "i", "n", "g", "C", "o", "n", "f", "i", "g", "u", "r", "a", "t", "i", "o", "n", "X", "M", "L">>,
     springConfigurationAnnotation |->
       <<"s", "p", "r", "i", "n", "g", "C", "o", "n", "f", "i", "g", "u", "r", "a", "t", "i", "o", "n", "A", "n", "n", "o", "t", "a", "t", "i", "o", "n">>,
     SpringConfigurationAnnotation |->
       <<"S", "p", "r", "i", "n", "g", "C", "o", "n", "f", "i", "g", "u", "r", "a", "t", "i", "o", "n", "A", "n", "n", "o", "t", "a", "t", "i", "o", "n">>,
     springMVCDispatcherServlet |->
       <<"s", "p", "r", "i", "n", "g", "M", "V", "C", "D", "i", "s", "p", "a", "t", "c", "h", "e", "r", "S", "e", "r", "v", "l", "e", "t">>,
     SpringMVCDispatcherServlet |->
       <<"S", "p", "r", "i", "n", "g", "M", "V", "C", "D", "i", "s", "p", "a", "t", "c", "h", "e", "r", "S", "e", "r", "v", "l", "e", "t">>,
     springMVCController |->
       <<"s", "p", "r", "i", "n", "g", "M", "V", "C", "C", "o", "n", "t", "r", "o", "l", "l", "e", "r">>,
     SpringMVCController |->
       <<"S", "p", "r", "i", "n", "g", "M", "V", "C", "C", "o", "n", "t", "r", "o", "l", "l", "e", "r">>,
     springMVCViewResolver |->
       <<"s", "p", "r", "i", "n", "g", "M", "V", "C", "V", "i", "e", "w", "R", "e", "s", "o", "l", "v", "e", "r">>,
     SpringMVCViewResolver |->
       <<"S", "p", "r", "i", "n", "g", "M", "V", "C", "V", "i", "e", "w", "R", "e", "s", "o", "l", "v", "e", "r">>,
     springMVCModelAndView |->
       <<"s", "p", "r", "i", "n", "g", "M", "V", "C", "M", "o", "d", "e", "l", "A", "n", "d", "V", "i", "e", "w">>,
     SpringMVCModelAndView |->
       <<"S", "p", "r", "i", "n", "g", "M", "V", "C", "M", "o", "d", "e", "l", "A", "n", "d", "V", "i", "e", "w">>,
     springProjectLoginStudentCRUD |->
       <<"s", "p", "r", "i", "n", "g", "P", "r", "o", "j", "e", "c", "t", "L", "o", "g", "i", "n", "S", "t", "u", "d", "e", "n", "t", "C", "R", "U", "D">>,
     SpringProjectLoginStudentCRUD |->
       <<"S", "p", "r", "i", "n", "g", "P", "r", "o", "j", "e", "c", "t", "L", "o", "g", "i", "n", "S", "t", "u", "d", "e", "n", "t", "C", "R", "U", "D">>,
     springDataIntroduction |->
       <<"s", "p", "r", "i", "n", "g", "D", "a", "t", "a", "I", "n", "t", "r", "o", "d", "u", "c", "t", "i", "o", "n">>,
     SpringDataIntroduction |->
       <<"S", "p", "r", "i", "n", "g", "D", "a", "t", "a", "I", "n", "t", "r", "o", "d", "u", "c", "t", "i", "o", "n">>,
     springDataRepositoryArchitecture |->
       <<"s", "p", "r", "i", "n", "g", "D", "a", "t", "a", "R", "e", "p", "o", "s", "i", "t", "o", "r", "y", "A", "r", "c", "h", "i", "t", "e", "c", "t", "u", "r", "e">>,
     SpringDataRepositoryArchitecture |->
       <<"S", "p", "r", "i", "n", "g", "D", "a", "t", "a", "R", "e", "p", "o", "s", "i", "t", "o", "r", "y", "A", "r", "c", "h", "i", "t", "e", "c", "t", "u", "r", "e">>,
     springJDBCTemplate |->
       <<"s", "p", "r", "i", "n", "g", "J", "D", "B", "C", "T", "e", "m", "p", "l", "a", "t", "e">>,
     SpringJDBCTemplate |->
       <<"S", "p", "r", "i", "n", "g", "J", "D", "B", "C", "T", "e", "m", "p", "l", "a", "t", "e">>,
     springDataCustomQueries |->
       <<"s", "p", "r", "i", "n", "g", "D", "a", "t", "a", "C", "u", "s", "t", "o", "m", "Q", "u", "e", "r", "i", "e", "s">>,
     SpringDataCustomQueries |->
       <<"S", "p", "r", "i", "n", "g", "D", "a", "t", "a", "C", "u", "s", "t", "o", "m", "Q", "u", "e", "r", "i", "e", "s">>,
     springAOPIntroduction |->
       <<"s", "p", "r", "i", "n", "g", "A", "O", "P", "I", "n", "t", "r", "o", "d", "u", "c", "t", "i", "o", "n">>,
     SpringAOPIntroduction |->
       <<"S", "p", "r", "i", "n", "g", "A", "O", "P", "I", "n", "t", "r", "o", "d", "u", "c", "t", "i", "o", "n">>,
     springAOPAdvancedPointcuts |->
       <<"s", "p", "r", "i", "n", "g", "A", "O", "P", "A", "d", "v", "a", "n", "c", "e", "d", "P", "o", "i", "n", "t", "c", "u", "t", "s">>,
     SpringAOPAdvancedPointcuts |->
       <<"S", "p", "r", "i", "n", "g", "A", "O", "P", "A", "d", "v", "a", "n", "c", "e", "d", "P", "o", "i", "n", "t", "c", "u", "t", "s">>,
     springAOPCustomAnnotations |->
       <<"s", "p", "r", "i", "n", "g", "A", "O", "P", "C", "u", "s", "t", "o", "m", "A", "n", "n", "o", "t", "a", "t", "i", "o", "n", "s">>,
     SpringAOPCustomAnnotations |->
       <<"S", "p", "r", "i", "n", "g", "A", "O", "P", "C", "u", "s", "t", "o", "m", "A", "n", "n", "o", "t", "a", "t", "i", "o", "n", "s">>,
     springAOPAspectOrdering |->
       <<"s", "p", "r", "i", "n", "g", "A", "O", "P", "A", "s", "p", "e", "c", "t", "O", "r", "d", "e", "r", "i", "n", "g">>,
     SpringAOPAspectOrdering |->
       <<"S", "p", "r", "i", "n", "g", "A", "O", "P", "A", "s", "p", "e", "c", "t", "O", "r", "d", "e", "r", "i", "n", "g">>,
     springAOPWithSpringBoot |->
       <<"s", "p", "r", "i", "n", "g", "A", "O", "P", "W", "i", "t", "h", "S", "p", "r", "i", "n", "g", "B", "o", "o", "t">>,
     SpringAOPWithSpringBoot |->
       <<"S", "p", "r", "i", "n", "g", "A", "O", "P", "W", "i", "t", "h", "S", "p", "r", "i", "n", "g", "B", "o", "o", "t">>]

\* The lower-case form of a letter; other characters are left alone.
LowerCase(c) ==
    CASE c = "A" -> "a" [] c = "B" -> "b" [] c = "C" -> "c" [] c = "D" -> "d"
      [] c = "E" -> "e" [] c = "F" -> "f" [] c = "G" -> "g" [] c = "H" -> "h"
      [] c = "I" -> "i" [] c = "J" -> "j" [] c = "K" -> "k" [] c = "L" -> "l"
      [] c = "M" -> "m" [] c = "N" -> "n" [] c = "O" -> "o" [] c = "P" -> "p"
      [] c = "Q" -> "q" [] c = "R" -> "r" [] c = "S" -> "s" [] c = "T" -> "t"
      [] c = "U" -> "u" [] c = "V" -> "v" [] c = "W" -> "w" [] c = "X" -> "x"
      [] c = "Y" -> "y" [] c = "Z" -> "z" [] OTHER -> c

\* The data modules are named after the object they export, with a capital
\* first letter: a local name and a module have the same name when they are
\* spelled alike but for the case of the first letter.
SameName(local, module) ==
    /\ Len(Spelling[local]) = Len(Spelling[module])
    /\ Len(Spelling[local]) > 0
    /\ Spelling[local][1] = LowerCase(Spelling[module][1])
    /\ \A i \in 2..Len(Spelling[local]) :
          Spelling[local][i] = Spelling[module][i]

(***************************************************************************)
(* Bounds of the model.                                                    *)
(***************************************************************************)
\* Pending 500 ms content-check timers beyond which the ad script stops
\* rewriting the status attribute to 'done'.
MaxContentTimers == 2

(***************************************************************************)
(* The AdSense component.                                                  *)
(***************************************************************************)
\* Values of the data-adsbygoogle-status attribute; "absent": no attribute.
Status == {"absent", "other", "done", "error", "unfilled"}

\* The iframe the ad script puts into the <ins>, by its offsetHeight.
Iframe == {"none", "zero", "positive"}

NullOutput == [kind |-> "null"]

Unrendered == [kind |-> "unrendered"]

\* AdSenseRender without the isAdSenseConfigured() check.
AdSenseRenderNoConfigCheck(conf, loaded, failed) ==
    IF failed THEN NullOutput
    ELSE [kind |-> "slot",
          classes |-> {"adsense-container",
                       IF loaded THEN "ad-loaded" ELSE "ad-loading"},
          minHeight |-> IF loaded THEN "auto" ELSE "0",
          display |-> IF failed THEN "none" ELSE "block",
          insMinHeight |-> IF loaded THEN "auto" ELSE "0"]

\* AdSenseRender with the min-height test the wrong way round.
AdSenseRenderMinHeightSwapped(conf, loaded, failed) ==
    IF ~conf THEN NullOutput
    ELSE IF failed THEN NullOutput
    ELSE [kind |-> "slot",
          classes |-> {"adsense-container",
                       IF loaded THEN "ad-loaded" ELSE "ad-loading"},
          minHeight |-> IF loaded THEN "0" ELSE "auto",
          display |-> IF failed THEN "none" ELSE "block",
          insMinHeight |-> IF loaded THEN "auto" ELSE "0"]

\* AdSenseRender that tests adLoaded before adFailed: a loaded ad stays
\* on screen after it failed.
AdSenseRenderLoadedWins(conf, loaded, failed) ==
    IF ~conf THEN NullOutput
    ELSE IF failed /\ ~loaded THEN NullOutput
    ELSE [kind |-> "slot",
          classes |-> {"adsense-container",
                       IF loaded THEN "ad-loaded" ELSE "ad-loading"},
          minHeight |-> IF loaded THEN "auto" ELSE "0",
          display |-> IF failed THEN "none" ELSE "block",
          insMinHeight |-> IF loaded THEN "auto" ELSE "0"]

\* AdSenseRender without the early return on adFailed: the container is
\* kept, with display 'none'.
AdSenseRenderKeepsFailed(conf, loaded, failed) ==
    IF ~conf THEN NullOutput
    ELSE [kind |-> "slot",
          classes |-> {"adsense-container",
                       IF loaded THEN "ad-loaded" ELSE "ad-loading"},
          minHeight |-> IF loaded THEN "auto" ELSE "0",
          display |-> IF failed THEN "none" ELSE "block",
          insMinHeight |-> IF loaded THEN "auto" ELSE "0"]

\* The render function: the three return statements of AdSense.
AdSenseRender(conf, loaded, failed) ==
    IF ~conf THEN NullOutput
    ELSE IF failed THEN NullOutput
    ELSE [kind |-> "slot",
          classes |-> {"adsense-container",
                       IF loaded THEN "ad-loaded" ELSE "ad-loading"},
          minHeight |-> IF loaded THEN "auto" ELSE "0",
          display |-> IF failed THEN "none" ELSE "block",
          insMinHeight |-> IF loaded THEN "auto" ELSE "0"]

\* setAdLoaded(true) and setAdFailed(true): a setter of an unmounted
\* component changes nothing.
SetAdLoaded(h) ==
    IF phase = "mounted" THEN [h EXCEPT !.adLoaded = TRUE] ELSE h

SetAdFailed(h) ==
    IF phase = "mounted" THEN [h EXCEPT !.adFailed = TRUE] ELSE h

\* adRef.current?.getAttribute('data-adsbygoogle-status')
StatusRead == IF adRefCurrent THEN status ELSE "absent"

\* checkAdStatus that treats only 'error', not 'unfilled', as a failure.
CheckAdStatusIgnoresUnfilled(st, h, ct) ==
    IF st = "done"
    THEN [hook |-> SetAdLoaded(h), contentTimers |-> ct + 1]
    ELSE IF st = "error"
    THEN [hook |-> SetAdFailed(h), contentTimers |-> ct]
    ELSE [hook |-> h, contentTimers |-> ct]

\* checkAdStatus, on hook values h with ct content timers pending: 'done'
\* sets adLoaded and schedules a 500 ms content check, 'error' and
\* 'unfilled' set adFailed.
CheckAdStatus(st, h, ct) ==
    IF st = "done"
    THEN [hook |-> SetAdLoaded(h), contentTimers |-> ct + 1]
    ELSE IF st = "error" \/ st = "unfilled"
    THEN [hook |-> SetAdFailed(h), contentTimers |-> ct]
    ELSE [hook |-> h, contentTimers |-> ct]

\* The push condition without the adRef.current check.
PushConditionNoRefCheck ==
    adsbygoogle /\ status = "absent"

\* The push condition without the hasAttribute check.
PushConditionNoStatusCheck ==
    adRefCurrent /\ adsbygoogle

\* The condition guarding the push in the mount effect.
PushCondition ==
    adRefCurrent /\ adsbygoogle /\ status = "absent"

\* The mount effect without its try/catch: a throwing push propagates and
\* React tears the tree down.
MountEffectUncaught(h) ==
    IF PushCondition
    THEN { [hook |-> h, pushes |-> pushes + 1, errorsLogged |-> errorsLogged,
            status |-> s, phase |-> phase] : s \in Status }
         \cup
         { [hook |-> h, pushes |-> pushes + 1, errorsLogged |-> errorsLogged,
            status |-> status, phase |-> "crashed"] }
    ELSE { [hook |-> h, pushes |-> pushes, errorsLogged |-> errorsLogged,
            status |-> status, phase |-> phase] }

\* The mount effect (deps []): its possible outcomes.  A push either
\* returns, after which the ad script may already have written a status,
\* or throws, which the catch block logs and turns into setAdFailed(true).
MountEffect(h) ==
    IF PushCondition
    THEN { [hook |-> h, pushes |-> pushes + 1, errorsLogged |-> errorsLogged,
            status |-> s, phase |-> phase] : s \in Status }
         \cup
         { [hook |-> SetAdFailed(h), pushes |-> pushes + 1,
            errorsLogged |-> errorsLogged + 1, status |-> status,
            phase |-> phase] }
    ELSE { [hook |-> h, pushes |-> pushes, errorsLogged |-> errorsLogged,
            status |-> status, phase |-> phase] }

\* What a flush does in place of the mount effect when only the monitoring
\* effect is due.
NoMountEffect(h) ==
    { [hook |-> h, pushes |-> pushes, errorsLogged |-> errorsLogged,
       status |-> status, phase |-> phase] }

\* clearTimeout(timeout) of the timer the current monitoring effect made.
ClearTimeout(tos) ==
    IF tos # <<>> /\ tos[Len(tos)].state = "pending"
    THEN [tos EXCEPT ![Len(tos)].state = "cleared"]
    ELSE tos

\* A cleanup that disconnects the observer but forgets clearTimeout.
CleanupKeepsTimeout(c) ==
    IF c.cleanupFn
    THEN [observers |-> c.observers - 1, timeouts |-> c.timeouts]
    ELSE [observers |-> c.observers, timeouts |-> c.timeouts]

\* The cleanup the monitoring effect returned: observer.disconnect() and
\* clearTimeout(timeout).
Cleanup(c) ==
    IF c.cleanupFn
    THEN [observers |-> c.observers - 1, timeouts |-> ClearTimeout(c.timeouts)]
    ELSE [observers |-> c.observers, timeouts |-> c.timeouts]

\* The monitoring effect without the adRef.current test of its early
\* return: it observes and schedules also when the slot is gone.
MonitorEffectNoRefCheck(st, h, obs, tos, ct) ==
    IF ~configured
    THEN [hook |-> h, observers |-> obs, timeouts |-> tos,
          contentTimers |-> ct, cleanupFn |-> FALSE]
    ELSE LET c == CheckAdStatus(st, h, ct)
         IN  [hook |-> c.hook,
              observers |-> obs + 1,
              timeouts |-> Append(tos, [state |-> "pending",
                                        adLoaded |-> adLoaded,
                                        adFailed |-> adFailed]),
              contentTimers |-> c.contentTimers,
              cleanupFn |-> TRUE]

\* The monitoring effect without its 5-second fallback timer.
MonitorEffectNoTimeout(st, h, obs, tos, ct) ==
    IF ~adRefCurrent \/ ~configured
    THEN [hook |-> h, observers |-> obs, timeouts |-> tos,
          contentTimers |-> ct, cleanupFn |-> FALSE]
    ELSE LET c == CheckAdStatus(st, h, ct)
         IN  [hook |-> c.hook,
              observers |-> obs + 1,
              timeouts |-> tos,
              contentTimers |-> c.contentTimers,
              cleanupFn |-> TRUE]

\* The body of the monitoring effect (deps [adLoaded, adFailed]) run with
\* the ins status st, hook values h, obs observers, timers tos and ct
\* content timers.
MonitorEffect(st, h, obs, tos, ct) ==
    IF ~adRefCurrent \/ ~configured
    THEN [hook |-> h, observers |-> obs, timeouts |-> tos,
          contentTimers |-> ct, cleanupFn |-> FALSE]
    ELSE LET c == CheckAdStatus(st, h, ct)
         IN  [hook |-> c.hook,
              observers |-> obs + 1,
              timeouts |-> Append(tos, [state |-> "pending",
                                        adLoaded |-> adLoaded,
                                        adFailed |-> adFailed]),
              contentTimers |-> c.contentTimers,
              cleanupFn |-> TRUE]

\* First render and commit of the component.
Mount ==
    /\ phase = "initial"
    /\ phase' = "mounted"
    /\ adLoaded' = FALSE
    /\ adFailed' = FALSE
    /\ hook' = [adLoaded |-> FALSE, adFailed |-> FALSE]
    /\ output' = AdSenseRender(configured, FALSE, FALSE)
    /\ adRefCurrent' = (output'.kind = "slot")
    /\ effects' = "mount"
    /\ UNCHANGED <<configured, status, iframe, adsbygoogle, pushes,
                   errorsLogged, observers, timeouts, cleanupFn,
                   contentTimers, tutorials, springIndex, sitemap, icon>>

\* Flush of the passive effects of the last commit: on mount the mount
\* effect and then the monitoring effect; on an update whose deps changed
\* the monitoring effect's cleanup and then the monitoring effect.
RunEffects ==
    /\ phase = "mounted"
    /\ effects # "none"
    /\ \E m \in (IF effects = "mount" THEN MountEffect(hook)
                                      ELSE NoMountEffect(hook)) :
          LET cl == Cleanup([cleanupFn |-> cleanupFn, observers |-> observers,
                             timeouts |-> timeouts])
              st == IF adRefCurrent THEN m.status ELSE "absent"
              e  == MonitorEffect(st, m.hook, cl.observers, cl.timeouts,
                                  contentTimers)
          IN  /\ hook' = e.hook
              /\ pushes' = m.pushes
              /\ errorsLogged' = m.errorsLogged
              /\ status' = m.status
              /\ phase' = m.phase
              /\ observers' = e.observers
              /\ timeouts' = e.timeouts
              /\ contentTimers' = e.contentTimers
              /\ cleanupFn' = e.cleanupFn
    /\ effects' = "none"
    /\ UNCHANGED <<configured, adLoaded, adFailed, output, adRefCurrent,
                   iframe, adsbygoogle, tutorials, springIndex, sitemap, icon>>

\* A render of the mounted component (its state changed, or its parent
\* rendered) and the commit of what it returned.  The monitoring effect is
\* due again when adLoaded or adFailed differ from the previous render.
Render ==
    /\ phase = "mounted"
    /\ effects = "none"
    /\ adLoaded' = hook.adLoaded
    /\ adFailed' = hook.adFailed
    /\ output' = AdSenseRender(configured, adLoaded', adFailed')
    /\ adRefCurrent' = (output'.kind = "slot")
    /\ status' = IF adRefCurrent' THEN status ELSE "absent"
    /\ iframe' = IF adRefCurrent' THEN iframe ELSE "none"
    /\ effects' = IF <<adLoaded', adFailed'>> # <<adLoaded, adFailed>>
                  THEN "update" ELSE "none"
    /\ UNCHANGED <<phase, configured, hook, adsbygoogle, pushes, errorsLogged,
                   observers, timeouts, cleanupFn, contentTimers, tutorials,
                   springIndex, sitemap, icon>>

\* The ad script (or anything else) writes the status attribute of the
\* <ins>; a connected observer then runs checkAdStatus.
SetStatus(s) ==
    /\ phase = "mounted"
    /\ adRefCurrent
    /\ (s = "done" /\ observers > 0) => contentTimers < MaxContentTimers
    /\ status' = s
    /\ LET c == IF observers > 0
                THEN CheckAdStatus(s, hook, contentTimers)
                ELSE [hook |-> hook, contentTimers |-> contentTimers]
       IN  /\ hook' = c.hook
           /\ contentTimers' = c.contentTimers
    /\ UNCHANGED <<phase, configured, adLoaded, adFailed, output, adRefCurrent,
                   iframe, adsbygoogle, pushes, errorsLogged, effects,
                   observers, timeouts, cleanupFn, tutorials, springIndex,
                   sitemap, icon>>

\* The ad script fills (or empties) the <ins>.
SetIframe(v) ==
    /\ phase = "mounted"
    /\ adRefCurrent
    /\ iframe # v
    /\ iframe' = v
    /\ UNCHANGED <<phase, configured, adLoaded, adFailed, hook, output,
                   adRefCurrent, status, adsbygoogle, pushes, errorsLogged,
                   effects, observers, timeouts, cleanupFn, contentTimers,
                   tutorials, springIndex, sitemap, icon>>

\* The adsbygoogle script tag has run: window.adsbygoogle is defined.
LoadAdsScript ==
    /\ ~adsbygoogle
    /\ adsbygoogle' = TRUE
    /\ UNCHANGED <<phase, configured, adLoaded, adFailed, hook, output,
                   adRefCurrent, status, iframe, pushes, errorsLogged,
                   effects, observers, timeouts, cleanupFn, contentTimers,
                   tutorials, springIndex, sitemap, icon>>

\* A content check that accepts any iframe, whatever its height.
ContentCheckIgnoresHeight ==
    /\ contentTimers > 0
    /\ contentTimers' = contentTimers - 1
    /\ hook' = IF adRefCurrent /\ iframe # "none"
               THEN SetAdLoaded(hook)
               ELSE SetAdFailed(hook)
    /\ UNCHANGED <<phase, configured, adLoaded, adFailed, output, adRefCurrent,
                   status, iframe, adsbygoogle, pushes, errorsLogged, effects,
                   observers, timeouts, cleanupFn, tutorials, springIndex,
                   sitemap, icon>>

\* A 500 ms content-check timer fires.
ContentCheck ==
    /\ contentTimers > 0
    /\ contentTimers' = contentTimers - 1
    /\ hook' = IF adRefCurrent /\ iframe = "positive"
               THEN SetAdLoaded(hook)
               ELSE SetAdFailed(hook)
    /\ UNCHANGED <<phase, configured, adLoaded, adFailed, output, adRefCurrent,
                   status, iframe, adsbygoogle, pushes, errorsLogged, effects,
                   observers, timeouts, cleanupFn, tutorials, springIndex,
                   sitemap, icon>>

\* A 5-second timer that fails the ad whatever its closure holds.
TimeoutFireUnconditional(i) ==
    /\ i \in DOMAIN timeouts
    /\ timeouts[i].state = "pending"
    /\ timeouts' = [timeouts EXCEPT ![i].state = "fired"]
    /\ hook' = SetAdFailed(hook)
    /\ UNCHANGED <<phase, configured, adLoaded, adFailed, output, adRefCurrent,
                   status, iframe, adsbygoogle, pushes, errorsLogged, effects,
                   observers, cleanupFn, contentTimers, tutorials, springIndex,
                   sitemap, icon>>

\* A 5-second timer whose test is inverted: it never marks a loading ad
\* as failed.
TimeoutFireInverted(i) ==
    /\ i \in DOMAIN timeouts
    /\ timeouts[i].state = "pending"
    /\ timeouts' = [timeouts EXCEPT ![i].state = "fired"]
    /\ hook' = IF timeouts[i].adLoaded \/ timeouts[i].adFailed
               THEN SetAdFailed(hook)
               ELSE hook
    /\ UNCHANGED <<phase, configured, adLoaded, adFailed, output, adRefCurrent,
                   status, iframe, adsbygoogle, pushes, errorsLogged, effects,
                   observers, cleanupFn, contentTimers, tutorials, springIndex,
                   sitemap, icon>>

\* The 5-second timer i fires: it reads the adLoaded and adFailed of the
\* render that scheduled it.
TimeoutFire(i) ==
    /\ i \in DOMAIN timeouts
    /\ timeouts[i].state = "pending"
    /\ timeouts' = [timeouts EXCEPT ![i].state = "fired"]
    /\ hook' = IF ~timeouts[i].adLoaded /\ ~timeouts[i].adFailed
               THEN SetAdFailed(hook)
               ELSE hook
    /\ UNCHANGED <<phase, configured, adLoaded, adFailed, output, adRefCurrent,
                   status, iframe, adsbygoogle, pushes, errorsLogged, effects,
                   observers, cleanupFn, contentTimers, tutorials, springIndex,
                   sitemap, icon>>

\* The component is removed: React runs the monitoring effect's cleanup,
\* removes the container and sets the refs to null.
Unmount ==
    /\ phase = "mounted"
    /\ effects = "none"
    /\ phase' = "unmounted"
    /\ LET cl == Cleanup([cleanupFn |-> cleanupFn, observers |-> observers,
                          timeouts |-> timeouts])
       IN  /\ observers' = cl.observers
           /\ timeouts' = cl.timeouts
    /\ cleanupFn' = FALSE
    /\ output' = NullOutput
    /\ adRefCurrent' = FALSE
    /\ status' = "absent"
    /\ iframe' = "none"
    /\ UNCHANGED <<configured, adLoaded, adFailed, hook, adsbygoogle, pushes,
                   errorsLogged, effects, contentTimers, tutorials,
                   springIndex, sitemap, icon>>

(***************************************************************************)
(* The MavenIcon component.                                                *)
(***************************************************************************)
\* The render function of MavenIcon: an svg of the given size.
MavenIcon(size, className) ==
    [kind |-> "svg", width |-> size, height |-> size,
     viewBox |-> <<0, 0, 24, 24>>, className |-> className]

RenderMavenIcon ==
    /\ \E size \in {16, 24} : icon' = MavenIcon(size, "")
    /\ icon' # icon
    /\ UNCHANGED <<adVars, tutorials, springIndex, sitemap>>

(***************************************************************************)
(* The Spring topics index module.                                         *)
(***************************************************************************)
\* The binding an import declaration makes: the local name and the object
\* that is the default export of the imported module.
ImportBinding(imp) == <<imp[1], DefaultExport[imp[2]]>>

\* The bindings in scope after the import declarations.
SpringScope == { ImportBinding(SpringImports[i]) : i \in DOMAIN SpringImports }

\* What the index exports when the module cannot be linked.
SyntaxError == { <<"SyntaxError", "SyntaxError">> }

\* The early errors of an ES module: a local name declared by two imports,
\* a module without a default export, a name exported twice, or an
\* exported name that is not declared in the module.
IndexEarlyError ==
    \/ \E i, j \in DOMAIN SpringImports :
          i # j /\ SpringImports[i][1] = SpringImports[j][1]
    \/ \E i \in DOMAIN SpringImports :
          SpringImports[i][2] \notin DOMAIN DefaultExport
    \/ \E i, j \in DOMAIN SpringExportList :
          i # j /\ SpringExportList[i] = SpringExportList[j]
    \/ \E i \in DOMAIN SpringExportList :
          \A j \in DOMAIN SpringImports :
             SpringImports[j][1] # SpringExportList[i]

\* export { ... }: every listed name is exported with the object it is
\* bound to in the module's scope.
SpringExports ==
    IF IndexEarlyError
    THEN SyntaxError
    ELSE { b \in SpringScope :
             \E i \in DOMAIN SpringExportList : SpringExportList[i] = b[1] }

\* An index that tags every Spring topic with a courseTitle while
\* re-exporting it.
LoadSpringIndexTagging ==
    /\ springIndex = {}
    /\ springIndex' = SpringExports
    /\ tutorials' = [t \in DOMAIN tutorials |->
                        IF t \in DOMAIN SpringTopics
                        THEN [courseTitle |-> Str("Spring")] @@ tutorials[t]
                        ELSE tutorials[t]]
    /\ UNCHANGED <<adVars, sitemap, icon>>

\* The index module is evaluated: its imports are resolved and its export
\* list takes effect.  It reads no field of any tutorial object.
LoadSpringIndex ==
    /\ springIndex = {}
    /\ springIndex' = SpringExports
    /\ UNCHANGED <<adVars, tutorials, sitemap, icon>>

(***************************************************************************)
(* The sitemap generator (scripts/generate-sitemap.js), as                 *)
(* SITEMAP_GUIDE.md describes it.  A URL is kept as its path segments, a   *)
(* priority in tenths.                                                     *)
(***************************************************************************)
StaticPages ==
    << [loc |-> <<>>, priority |-> 10, changefreq |-> "daily"],
       [loc |-> <<"about">>, priority |-> 8, changefreq |-> "monthly"],
       [loc |-> <<"contact">>, priority |-> 7, changefreq |-> "monthly"],
       [loc |-> <<"privacy">>, priority |-> 5, changefreq |-> "yearly"],
       [loc |-> <<"terms">>, priority |-> 5, changefreq |-> "yearly"] >>

\* /tutorial/{topic-id}
TutorialPage(id) ==
    [loc |-> <<"tutorial", id>>, priority |-> 9, changefreq |-> "weekly"]

\* The topics of the course structure, as far as src defines them.
CourseStructure ==
    << "mavenCommonErrors",
       "mavenCreateProject",
       "mavenDependencyManagement",
       "mavenInstallation",
       "mavenIntroduction",
       "mavenMultiModule",
       "mavenProjectStructure",
       "mavenRepositories",
       "mavenSpringBoot",
       "mavenVsGradle",
       "mavenWhy",
       "springAOPWithSpringBoot",
       "springApplicationContext",
       "springBean",
       "springConfigurationAnnotation",
       "springConfigurationXML",
       "springDataCustomQueries",
       "springDataIntroduction",
       "springDataRepositoryArchitecture",
       "springIOC",
       "springIntroduction",
       "springJDBCTemplate",
       "springMVCViewResolver",
       "springProjectLoginStudentCRUD",
       "mavenBestPractices",
       "mavenCommands",
       "mavenPlugins",
       "mavenPomXml",
       "springAOPAdvancedPointcuts",
       "springAOPAspectOrdering",
       "springAOPCustomAnnotations",
       "springAOPIntroduction",
       "springDI",
       "springMVCController",
       "springMVCDispatcherServlet",
       "springMVCModelAndView" >>

\* npm run generate-sitemap: the static pages, then one URL per topic of
\* the course structure.
GenerateSitemap ==
    /\ sitemap' = StaticPages \o
                  [i \in 1..Len(CourseStructure) |->
                      TutorialPage(tutorials[CourseStructure[i]].id.value)]
    /\ sitemap' # sitemap
    /\ UNCHANGED <<adVars, tutorials, springIndex, icon>>

(***************************************************************************)
(* The specification.                                                      *)
(***************************************************************************)
Init ==
    /\ phase = "initial"
    /\ configured \in BOOLEAN
    /\ adLoaded = FALSE
    /\ adFailed = FALSE
    /\ hook = [adLoaded |-> FALSE, adFailed |-> FALSE]
    /\ output = Unrendered
    /\ adRefCurrent = FALSE
    /\ status = "absent"
    /\ iframe = "none"
    /\ adsbygoogle \in BOOLEAN
    /\ pushes = 0
    /\ errorsLogged = 0
    /\ effects = "none"
    /\ observers = 0
    /\ timeouts = <<>>
    /\ cleanupFn = FALSE
    /\ contentTimers = 0
    /\ tutorials = TutorialData
    /\ springIndex = {}
    /\ sitemap = <<>>
    /\ icon = Unrendered

Next ==
    \/ Mount
    \/ RunEffects
    \/ Render
    \/ \E s \in Status : SetStatus(s)
    \/ \E v \in Iframe : SetIframe(v)
    \/ LoadAdsScript
    \/ ContentCheck
    \/ \E i \in DOMAIN timeouts : TimeoutFire(i)
    \/ Unmount
    \/ RenderMavenIcon
    \/ LoadSpringIndex
    \/ GenerateSitemap

Spec == Init /\ [][Next]_vars

\* React flushes scheduled renders and passive effects, and the browser
\* fires every timer that stays pending.
FairSpec ==
    /\ Spec
    /\ WF_vars(Render)
    /\ WF_vars(RunEffects)
    /\ WF_vars(ContentCheck)
    /\ WF_vars(\E i \in DOMAIN timeouts : TimeoutFire(i))

(***************************************************************************)
(* Shared state predicates.                                                *)
(***************************************************************************)
Mounted == phase = "mounted"

Hidden == output = NullOutput /\ ~adRefCurrent

TerminalStatus == {"done", "error", "unfilled"}

TimeoutFired == \E i \in DOMAIN timeouts : timeouts[i].state = "fired"

\* A scheduled setAdFailed(true) reaches the screen: the component is
\* re-rendered hidden, unless it is unmounted first.
FailureGetsRendered ==
    (Mounted /\ hook.adFailed) ~> (phase = "unmounted" \/ (adFailed /\ Hidden))

(***************************************************************************)
(* C1: whenever isAdSenseConfigured() is false the component renders       *)
(* nothing: a mounted, unconfigured component has committed null and has   *)
(* no <ins>, and the render function returns null for every adLoaded and   *)
(* adFailed when unconfigured.                                             *)
(***************************************************************************)
C1_UnconfiguredRendersNothing ==
    /\ (Mounted /\ ~configured) => Hidden
    /\ \A l \in BOOLEAN, f \in BOOLEAN : AdSenseRender(FALSE, l, f) = NullOutput

C1_Witness ==
    /\ Mounted /\ ~configured /\ effects = "none"
    /\ adsbygoogle /\ Hidden /\ pushes = 0

(***************************************************************************)
(* C2: in every state of a mounted component whose render saw adFailed =   *)
(* TRUE, null was returned and committed: no container and no <ins>, also  *)
(* when adLoaded is TRUE as well.                                          *)
(***************************************************************************)
C2_FailedRendersNothing ==
    (Mounted /\ adFailed) => Hidden

C2_Witness ==
    Mounted /\ adFailed /\ adLoaded /\ Hidden /\ effects = "none"

C4_ErrorStatusHides ==
    /\ []((Mounted /\ adRefCurrent /\ effects # "mount") => observers = 1)
    /\ [][(\E s \in {"error", "unfilled"} : SetStatus(s)) /\ effects # "mount"
            => hook'.adFailed]_vars
    /\ [][(RunEffects /\ adRefCurrent /\ configured
             /\ status' \in {"error", "unfilled"}) => hook'.adFailed]_vars
    /\ FailureGetsRendered

C4_Witness ==
    /\ Mounted /\ ~adRefCurrent /\ configured
    /\ adFailed /\ ~adLoaded /\ Hidden
    /\ ~TimeoutFired /\ errorsLogged = 0 /\ contentTimers = 0

(***************************************************************************)
(* C8: a status check of a mounted component that reads 'done' calls       *)
(* setAdLoaded(true) and schedules one 500 ms content check; a content     *)
(* check of a mounted component keeps the ad loaded and does not fail it   *)
(* when the <ins> holds an iframe of positive height, and otherwise (no    *)
(* iframe, zero height, no <ins>) calls setAdFailed(true), after which the *)
(* component is re-rendered hidden.                                        *)
(***************************************************************************)
C8_DoneThenContentCheck ==
    /\ [][(SetStatus("done") /\ observers > 0)
            => (hook'.adLoaded /\ contentTimers' = contentTimers + 1)]_vars
    /\ [][(RunEffects /\ adRefCurrent /\ configured /\ status' = "done")
            => (hook'.adLoaded /\ contentTimers' = contentTimers + 1)]_vars
    /\ [][(ContentCheck /\ Mounted)
            => IF adRefCurrent /\ iframe = "positive"
               THEN hook'.adLoaded /\ hook'.adFailed = hook.adFailed
               ELSE hook'.adFailed]_vars
    /\ (Mounted /\ hook.adFailed)
          ~> (phase = "unmounted" \/ output = NullOutput)

C8_WitnessFailed ==
    /\ Mounted /\ adLoaded /\ adFailed /\ Hidden
    /\ ~TimeoutFired /\ errorsLogged = 0

\* The passing branch: done was read, every content check has run and none
\* failed the ad.
C8_Witness ==
    /\ Mounted /\ adLoaded /\ ~hook.adFailed /\ output.kind = "slot"
    /\ status = "done" /\ iframe = "positive" /\ contentTimers = 0

(***************************************************************************)
(* C9: push({}) is called at most once per mount, only by the flush of the *)
(* mount effect, and only when at that moment the <ins> exists,            *)
(* window.adsbygoogle is defined and the <ins> has no status attribute.    *)
(***************************************************************************)
C9_PushAtMostOnce ==
    /\ [](pushes <= 1)
    /\ [][pushes' # pushes
            => /\ RunEffects
               /\ effects = "mount"
               /\ pushes' = pushes + 1
               /\ adRefCurrent /\ adsbygoogle /\ status = "absent"]_vars

C9_Witness ==
    /\ Mounted /\ pushes = 1 /\ adLoaded /\ effects = "none"
    /\ Len(timeouts) = 2

(***************************************************************************)
(* C10: a push that throws in the mount effect is caught: the component is *)
(* not torn down, the error is logged, setAdFailed(true) is called in the  *)
(* same step, and the component is then re-rendered hidden.                *)
(***************************************************************************)
C10_PushErrorCaught ==
    /\ [](phase # "crashed")
    /\ [][errorsLogged' # errorsLogged
            => (RunEffects /\ effects = "mount" /\ pushes' = pushes + 1
                /\ hook'.adFailed /\ phase' = "mounted")]_vars
    /\ (Mounted /\ errorsLogged > 0) ~> (phase = "unmounted" \/ (adFailed /\ Hidden))

C10_Witness ==
    /\ Mounted /\ errorsLogged = 1 /\ pushes = 1
    /\ adFailed /\ Hidden /\ ~TimeoutFired

(***************************************************************************)
(* Tutorial data.                                                          *)
(***************************************************************************)
SixFields ==
    {"id", "title", "description", "content", "code", "practiceQuestions"}

IsString(r, f) == f \in DOMAIN r /\ r[f].type = "string"

(***************************************************************************)
(* C5, as stated: every tutorial data object (Maven and Spring) has the    *)
(* six fields id, title, description, content, code and practiceQuestions, *)
(* content and code being strings.                                         *)
(***************************************************************************)
C5_AllTopicsHaveSixFields ==
    \A t \in DOMAIN tutorials :
        /\ SixFields \subseteq DOMAIN tutorials[t]
        /\ IsString(tutorials[t], "content")
        /\ IsString(tutorials[t], "code")

(***************************************************************************)
(* C5, amended: every Spring tutorial data object has the six fields, with *)
(* content and code strings; every Maven tutorial data object has id,      *)
(* title, description, courseTitle, sectionTitle and content (a string),   *)
(* and has neither code nor practiceQuestions.                             *)
(***************************************************************************)
C5_SpringSixFieldsMavenFour ==
    /\ DOMAIN tutorials = DOMAIN MavenTopics \cup DOMAIN SpringTopics
    /\ \A t \in DOMAIN SpringTopics :
          /\ DOMAIN tutorials[t] = SixFields
          /\ IsString(tutorials[t], "content")
          /\ IsString(tutorials[t], "code")
    /\ \A t \in DOMAIN MavenTopics :
          /\ DOMAIN tutorials[t] =
                {"id", "title", "description", "courseTitle", "sectionTitle",
                 "content"}
          /\ IsString(tutorials[t], "content")

C5_Witness ==
    /\ springIndex # {} /\ sitemap # <<>>
    /\ "code" \notin DOMAIN tutorials["mavenIntroduction"]
    /\ "practiceQuestions" \notin DOMAIN tutorials["mavenIntroduction"]
    /\ IsString(tutorials["springBean"], "code")

(***************************************************************************)
(* C6: no operation changes, adds or removes a field of a tutorial data    *)
(* object: every step leaves the tutorial objects as the modules defined   *)
(* them.                                                                   *)
(***************************************************************************)
C6_TutorialsNeverMutated ==
    /\ [](tutorials = TutorialData)
    /\ [][tutorials' = tutorials]_vars

C6_Witness ==
    /\ phase = "unmounted" /\ TimeoutFired /\ hook.adLoaded
    /\ springIndex # {} /\ sitemap # <<>> /\ icon # Unrendered
    /\ tutorials = TutorialData

(***************************************************************************)
(* C7: a regenerated sitemap starts with the five static pages /, /about,  *)
(* /contact, /privacy, /terms with priorities 1.0, 0.8, 0.7, 0.5, 0.5; it  *)
(* holds for every tutorial topic exactly one URL /tutorial/{topic-id},    *)
(* with priority 0.9 and weekly change frequency; every other URL is a     *)
(* static page, and the number of URLs is the static pages plus the        *)
(* topics.                                                                 *)
(***************************************************************************)
UrlsOf(id) == { i \in DOMAIN sitemap : sitemap[i].loc = <<"tutorial", id>> }

PendingTimeouts == { i \in DOMAIN timeouts : timeouts[i].state = "pending" }

\* A step that tears the monitoring effect down: the flush after a render
\* whose adLoaded or adFailed changed, or the unmount.
TearDown == (RunEffects /\ effects = "update") \/ Unmount

(***************************************************************************)
(* C11: a tear-down of the monitoring effect leaves none of the 5-second   *)
(* timers that were pending pending, and disconnects the observer; so a    *)
(* mounted component has at most one connected observer and at most one    *)
(* pending 5-second timer, and an unmounted one has none.                  *)
(***************************************************************************)
C11_OneObserverOneTimeout ==
    /\ [](observers <= 1 /\ Cardinality(PendingTimeouts) <= 1)
    /\ [](phase = "unmounted"
            => (observers = 0 /\ PendingTimeouts = {} /\ ~cleanupFn))
    /\ [][TearDown
            => /\ \A i \in PendingTimeouts : timeouts'[i].state = "cleared"
               /\ observers' = IF cleanupFn' THEN 1 ELSE 0]_vars

C11_Witness ==
    /\ Mounted /\ Len(timeouts) = 2
    /\ timeouts[1].state = "cleared" /\ timeouts[2].state = "pending"
    /\ observers = 1 /\ adLoaded

(***************************************************************************)
(* C12: a 5-second timer calls setAdFailed(true) only if adLoaded and      *)
(* adFailed were both FALSE in the render whose effect scheduled it; every *)
(* timer is scheduled with the adLoaded and adFailed of the current        *)
(* render, so a timer scheduled after adLoaded = TRUE was committed never  *)
(* changes adFailed.                                                       *)
(***************************************************************************)
C12_TimeoutReadsItsRender ==
    /\ [][\A i \in DOMAIN timeouts :
            (TimeoutFire(i) /\ hook'.adFailed # hook.adFailed)
               => (~timeouts[i].adLoaded /\ ~timeouts[i].adFailed)]_vars
    /\ [][Len(timeouts') > Len(timeouts)
            => /\ Len(timeouts') = Len(timeouts) + 1
               /\ timeouts'[Len(timeouts')] =
                     [state |-> "pending", adLoaded |-> adLoaded,
                      adFailed |-> adFailed]]_vars
    /\ [][\A i \in DOMAIN timeouts :
            (TimeoutFire(i) /\ timeouts[i].adLoaded) => hook' = hook]_vars

C12_Witness ==
    /\ Mounted /\ adLoaded /\ ~hook.adFailed /\ output.kind = "slot"
    /\ \E i \in DOMAIN timeouts :
          timeouts[i].state = "fired" /\ timeouts[i].adLoaded

(***************************************************************************)
(* C13: the slot is rendered exactly when AdSense is configured and        *)
(* adFailed is FALSE; a rendered container has display 'block', carries    *)
(* 'ad-loaded' iff adLoaded and 'ad-loading' iff not adLoaded, and the     *)
(* min-height of container and <ins> is 'auto' iff adLoaded, else '0'.     *)
(***************************************************************************)
SlotShape(o, loaded) ==
    /\ o.display = "block"
    /\ ("ad-loaded" \in o.classes) <=> loaded
    /\ ("ad-loading" \in o.classes) <=> ~loaded
    /\ o.minHeight = (IF loaded THEN "auto" ELSE "0")
    /\ o.insMinHeight = (IF loaded THEN "auto" ELSE "0")

C14_MonotoneAndPermanent ==
    /\ [][Mount => (~adLoaded' /\ ~adFailed'
                    /\ ~hook'.adLoaded /\ ~hook'.adFailed)]_vars
    /\ [][/\ adLoaded => adLoaded'
          /\ adFailed => adFailed'
          /\ hook.adLoaded => hook'.adLoaded
          /\ hook.adFailed => hook'.adFailed]_vars
    /\ [][(Mounted /\ adFailed)
            => /\ output' = NullOutput /\ ~adRefCurrent'
               /\ Len(timeouts') = Len(timeouts)
               /\ observers' <= observers
               /\ contentTimers' <= contentTimers
               /\ status' = "absent"]_vars
    /\ []((Mounted /\ adFailed /\ effects = "none")
            => (observers = 0 /\ PendingTimeouts = {}))

C14_Witness ==
    /\ Mounted /\ adFailed /\ hook.adLoaded /\ Hidden /\ effects = "none"
    /\ observers = 0 /\ PendingTimeouts = {} /\ Len(timeouts) = 2

(***************************************************************************)
(* C19: an unconfigured component has no effects during its whole          *)
(* lifetime: nothing is pushed, no observer is created, no timer is        *)
(* scheduled, nothing is logged, and adLoaded and adFailed stay FALSE.     *)
(***************************************************************************)
C19_UnconfiguredHasNoEffects ==
    ~configured =>
       /\ pushes = 0 /\ errorsLogged = 0
       /\ observers = 0 /\ timeouts = <<>> /\ contentTimers = 0 /\ ~cleanupFn
       /\ ~adLoaded /\ ~adFailed /\ ~hook.adLoaded /\ ~hook.adFailed

C19_Witness ==
    /\ ~configured /\ phase = "unmounted" /\ adsbygoogle
    /\ pushes = 0 /\ timeouts = <<>>

(***************************************************************************)
(* C15: once a status check has read 'done' while the ad had not failed,   *)
(* the ad is never marked failed as long as every content check finds an   *)
(* iframe of positive height (and no check reads 'error' or 'unfilled'):   *)
(* no step of the observer, the 5-second timer, the re-render or the       *)
(* effect cleanup calls setAdFailed(true).                                 *)
(***************************************************************************)
FailingContentCheck == ContentCheck /\ ~(adRefCurrent /\ iframe = "positive")

C15_LoadedInTimeNeverFails ==
    [][(/\ Mounted /\ hook.adLoaded /\ ~hook.adFailed
        /\ ~FailingContentCheck
        /\ status' \notin {"error", "unfilled"})
          => ~hook'.adFailed]_vars

(***************************************************************************)
(* C16: after the unmount nothing that calls setAdLoaded or setAdFailed is *)
(* left: no connected observer, no pending 5-second timer and no pending   *)
(* 500 ms content-check timer.                                             *)
(***************************************************************************)
C16_NoCallbackAfterUnmount ==
    phase = "unmounted" =>
       /\ observers = 0
       /\ PendingTimeouts = {}
       /\ contentTimers = 0

(***************************************************************************)
(* C17, as stated: adLoaded and adFailed are never both TRUE.              *)
(***************************************************************************)
C17_NeverBothTrue ==
    /\ ~(adLoaded /\ adFailed)
    /\ ~(hook.adLoaded /\ hook.adFailed)

(***************************************************************************)
(* C17, amended: adLoaded and adFailed can both be TRUE, but never while   *)
(* the slot is rendered: a render that saw both returned null, and a slot  *)
(* on screen with class 'ad-loaded' belongs to a render with adLoaded and  *)
(* without adFailed.                                                       *)
(***************************************************************************)
C17_BothTrueOnlyHidden ==
    /\ (Mounted /\ adLoaded /\ adFailed) => Hidden
    /\ (Mounted /\ output.kind = "slot" /\ "ad-loaded" \in output.classes)
          => (adLoaded /\ ~adFailed)
    /\ AdSenseRender(TRUE, TRUE, TRUE) = NullOutput

C17_Witness ==
    /\ Mounted /\ adLoaded /\ adFailed /\ Hidden
    /\ pushes = 1 /\ errorsLogged = 0 /\ ~TimeoutFired /\ contentTimers = 0
    /\ effects = "none" /\ observers = 0

(***************************************************************************)
(* C18: with renders, effect flushes and timers eventually running, a      *)
(* mounted configured component leaves the loading state (or is            *)
(* unmounted); and if from some moment on the status attribute is no       *)
(* longer written, it reaches for good a state with no pending flush, no   *)
(* pending timer and nothing left to render, in which it is hidden with    *)
(* adFailed, or visible with adLoaded and without adFailed.                *)
(***************************************************************************)
Quiescent ==
    /\ Mounted /\ effects = "none"
    /\ hook = [adLoaded |-> adLoaded, adFailed |-> adFailed]
    /\ PendingTimeouts = {} /\ contentTimers = 0
    /\ \/ adFailed /\ Hidden /\ observers = 0
       \/ adLoaded /\ ~adFailed /\ output.kind = "slot"

StatusWritten == \E s \in Status : SetStatus(s)

C18_LeavesLoadingAndSettles ==
    /\ (Mounted /\ configured)
          ~> (phase = "unmounted" \/ adLoaded \/ adFailed)
    /\ (<>[][~StatusWritten]_vars /\ <>(Mounted /\ configured))
          => <>[](phase = "unmounted" \/ Quiescent)

C18_Witness ==
    /\ Quiescent /\ adLoaded /\ ~adFailed /\ status = "done"
    /\ Len(timeouts) = 2 /\ timeouts[2].state = "fired"

(***************************************************************************)
(* C20: the ids of the tutorial data objects are non-empty strings of      *)
(* lowercase letters, digits and hyphens, and no two objects have the same *)
(* id, so no two topics have the same /tutorial/{topic-id} URL.            *)
(***************************************************************************)
SlugChars ==
    {"a", "b", "c", "d", "e", "f", "g", "h", "i", "j", "k", "l", "m",
     "n", "o", "p", "q", "r", "s", "t", "u", "v", "w", "x", "y", "z",
     "0", "1", "2", "3", "4", "5", "6", "7", "8", "9", "-"}

C20_IdsAreDistinctSlugs ==
    /\ \A t \in DOMAIN tutorials :
          /\ IsString(tutorials[t], "id")
          /\ Len(tutorials[t].id.chars) > 0
          /\ \A i \in DOMAIN tutorials[t].id.chars :
                tutorials[t].id.chars[i] \in SlugChars
    /\ \A t \in DOMAIN tutorials, u \in DOMAIN tutorials :
          t # u =>
             /\ tutorials[t].id.value # tutorials[u].id.value
             /\ tutorials[t].id.chars # tutorials[u].id.chars
             /\ TutorialPage(tutorials[t].id.value).loc
                   # TutorialPage(tutorials[u].id.value).loc

C20_Witness ==
    /\ sitemap # <<>>
    /\ Cardinality({ sitemap[i].loc : i \in DOMAIN sitemap }) = Len(sitemap)
    /\ \E i \in DOMAIN tutorials["springIOC"].id.chars :
          tutorials["springIOC"].id.chars[i] = "-"
    /\ tutorials["mavenBestPractices"].id.value = "maven-best-practices"

(***************************************************************************)
(* C21: the Spring topics index exports exactly the 21 names it imports,   *)
(* each bound to the default export of the module of the same name: no     *)
(* name is imported but not exported, exported but not imported, or        *)
(* exported twice.                                                         *)
(***************************************************************************)
ImportedNames == { SpringImports[i][1] : i \in DOMAIN SpringImports }

ExportedNames == { b[1] : b \in springIndex }

C21_ExportsExactlyItsImports ==
    springIndex # {} =>
       /\ springIndex # SyntaxError
       /\ Len(SpringImports) = 21
       /\ Cardinality(ImportedNames) = 21
       /\ ExportedNames = ImportedNames
       /\ Cardinality(springIndex) = 21
       /\ Len(SpringExportList) = 21
       /\ \A i, j \in DOMAIN SpringExportList :
             i # j => SpringExportList[i] # SpringExportList[j]
       /\ \A i \in DOMAIN SpringImports :
             /\ SameName(SpringImports[i][1], SpringImports[i][2])
             /\ <<SpringImports[i][1], DefaultExport[SpringImports[i][2]]>>
                   \in springIndex
       /\ \A b \in springIndex :
             /\ b[2] = b[1]
             /\ b[2] \in DOMAIN SpringTopics
             /\ tutorials[b[2]] = SpringTopics[b[2]]

C21_Witness ==
    /\ Cardinality(springIndex) = 21
    /\ <<"springIntroduction", "springIntroduction">> \in springIndex
    /\ <<"springAOPWithSpringBoot", "springAOPWithSpringBoot">> \in springIndex
    /\ tutorials["springAOPWithSpringBoot"].id.value = "spring-aop-spring-boot"
====
